---- MODULE Spec2Model ----
(***************************************************************************)
(* A model of create_dic.py: the master table loader, the extract filter,  *)
(* the suggestion reducer, the two dictionary writers and create().        *)
(*                                                                         *)
(* A Python str is modelled as a sequence of tokens.  The tokens are the   *)
(* separator characters the code looks at (tab, comma, space, CR, LF) and  *)
(* atomic words standing for runs of other characters.                     *)
(***************************************************************************)
EXTENDS Integers, Sequences, FiniteSets, TLC

\* Bound: the number of data lines (after the header) of a master file.
MaxRows == 3

----------------------------------------------------------------------------
(* Characters and strings *)

TAB == "\t"
COMMA == ","
SP == " "
CR == "\r"
LF == "\n"

\* The characters str.rstrip() removes.
Whitespace == {TAB, SP, CR, LF}

\* str.rstrip(): drop the trailing whitespace characters.
RECURSIVE rstrip(_)
rstrip(s) ==
    IF s # << >> /\ s[Len(s)] \in Whitespace
    THEN rstrip(SubSeq(s, 1, Len(s) - 1))
    ELSE s

\* str.split(sep): the fields between the separators; always at least one.
RECURSIVE split_from(_, _, _, _)
split_from(s, sep, i, cur) ==
    IF i > Len(s) THEN << cur >>
    ELSE IF s[i] = sep THEN << cur >> \o split_from(s, sep, i + 1, << >>)
    ELSE split_from(s, sep, i + 1, Append(cur, s[i]))

split(s, sep) == split_from(s, sep, 1, << >>)

----------------------------------------------------------------------------
(* The enumerations: each member is named by its Python name, and the     *)
(* functions below give its value.                                         *)

DicVersion == [GOOGLE |-> "google", ATOK |-> "atok"]

DicType == [CHARACTER |-> "character", MUSIC |-> "music"]

\* Iterating an Enum class yields its members in definition order.
DicTypeOrder == << "CHARACTER", "MUSIC" >>

Series == [AIKATSU |-> "aikatsu", AIKATSU_STARS |-> "stars", AIKATSU_FRIENDS |-> "friends"]

Members(enum) == DOMAIN enum

\* Enum(value): the member with that value, or ValueError.  The value is a
\* str, so it names a member only when it is exactly one word.
ByValue(enum, s) ==
    IF Len(s) = 1 /\ \E m \in DOMAIN enum : enum[m] = s[1]
    THEN [err |-> "none", val |-> CHOOSE m \in DOMAIN enum : enum[m] = s[1]]
    ELSE [err |-> "ValueError", val |-> "none"]

\* Enum[name]: the member with that name, or KeyError.
ByName(enum, name) ==
    IF name \in DOMAIN enum
    THEN [err |-> "none", val |-> name]
    ELSE [err |-> "KeyError", val |-> "none"]

----------------------------------------------------------------------------
(* DicEntry and MasterDic.read_master_dic *)

\* A constructor that stores the surface as the normalized surface too.
DicEntrySurfaceTwice(surface, normalized_surface, pos, yomi, series_set, dic_type) ==
    [surface |-> surface, normalized_surface |-> surface, pos |-> pos,
     yomi |-> yomi, series_set |-> series_set, dic_type |-> dic_type]

DicEntry(surface, normalized_surface, pos, yomi, series_set, dic_type) ==
    [surface |-> surface, normalized_surface |-> normalized_surface, pos |-> pos,
     yomi |-> yomi, series_set |-> series_set, dic_type |-> dic_type]

\* A line as iterating a text file yields it: with its line terminator.
FileLine(row) == row \o << LF >>

NoError == [type |-> "none", cols |-> 0, input |-> << >>]

\* set([Series(s) for s in cols[4].split(',')]): the tags, or the first error.
ParseSeriesSet(col) ==
    LET parts == split(col, COMMA)
        parsed == [i \in 1..Len(parts) |-> ByValue(Series, parts[i])]
    IN IF \E i \in 1..Len(parts) : parsed[i].err # "none"
       THEN [err |-> "ValueError", val |-> {}]
       ELSE [err |-> "none", val |-> {parsed[i].val : i \in 1..Len(parts)}]

\* A loop body that skips a row of a wrong width instead of raising.
ReadLineSkipping(raw, entries) ==
    LET line == rstrip(raw)
        cols == split(line, TAB)
        series_set == ParseSeriesSet(cols[5])
        dic_type == ByValue(DicType, cols[6])
    IN IF line = << >> \/ Len(cols) # 6 THEN [error |-> NoError, entries |-> entries]
       ELSE IF series_set.err # "none" \/ dic_type.err # "none"
       THEN [error |-> [type |-> "ValueError", cols |-> 0, input |-> << >>],
             entries |-> << >>]
       ELSE [error |-> NoError,
             entries |-> Append(entries, DicEntry(cols[1], cols[2], cols[3], cols[4],
                                                  series_set.val, dic_type.val))]

\* The body of the loop over the lines: skip, append or raise.
ReadLine(raw, entries) ==
    LET line == rstrip(raw)
        cols == split(line, TAB)
        series_set == ParseSeriesSet(cols[5])
        dic_type == ByValue(DicType, cols[6])
    IN IF line = << >> THEN [error |-> NoError, entries |-> entries]
       ELSE IF Len(cols) # 6
       THEN [error |-> [type |-> "ValueError", cols |-> Len(cols), input |-> line],
             entries |-> << >>]
       ELSE IF series_set.err # "none" \/ dic_type.err # "none"
       THEN [error |-> [type |-> "ValueError", cols |-> 0, input |-> << >>],
             entries |-> << >>]
       ELSE [error |-> NoError,
             entries |-> Append(entries, DicEntry(cols[1], cols[2], cols[3], cols[4],
                                                  series_set.val, dic_type.val))]

RECURSIVE read_from(_, _, _)
read_from(lines, i, entries) ==
    IF i > Len(lines) THEN [error |-> NoError, entries |-> entries]
    ELSE LET r == ReadLine(FileLine(lines[i]), entries)
         IN IF r.error.type # "none" THEN r
            ELSE read_from(lines, i + 1, r.entries)

\* read_master_dic: next(f) skips the header (StopIteration on an empty
\* file), then every line is read; an exception returns nothing.
read_master_dic(lines) ==
    IF lines = << >>
    THEN [error |-> [type |-> "StopIteration", cols |-> 0, input |-> << >>],
          entries |-> << >>]
    ELSE read_from(lines, 2, << >>)

----------------------------------------------------------------------------
(* MasterDic.extract and reduce_entries_for_suggest_dic *)

\* A filter that forgets the tags.
ExtractKeepsAnySeries(entry, dic_type, series_set) == entry.dic_type = dic_type

\* The test of the loop of extract: the kind matches and the tags overlap.
ExtractKeeps(entry, dic_type, series_set) ==
    LET common_series == series_set \cap entry.series_set
    IN entry.dic_type = dic_type /\ 0 < Cardinality(common_series)

RECURSIVE extract_from(_, _, _, _)
extract_from(all_entries, i, dic_type, series_set) ==
    IF i > Len(all_entries) THEN << >>
    ELSE IF ExtractKeeps(all_entries[i], dic_type, series_set)
    THEN << all_entries[i] >> \o extract_from(all_entries, i + 1, dic_type, series_set)
    ELSE extract_from(all_entries, i + 1, dic_type, series_set)

extract(all_entries, dic_type, series_set) ==
    extract_from(all_entries, 1, dic_type, series_set)

\* A key that forgets the normalized surface.
YomiOnly(entry) == << entry.yomi >>

\* The key of an entry in the reducer.
YomiSurface(entry) == << entry.yomi, entry.normalized_surface >>

RECURSIVE reduce_from(_, _, _)
reduce_from(entries, i, used_entries) ==
    IF i > Len(entries) THEN << >>
    ELSE LET yomi_surface == YomiSurface(entries[i])
         IN IF yomi_surface \notin used_entries
            THEN << entries[i] >>
                 \o reduce_from(entries, i + 1, used_entries \cup {yomi_surface})
            ELSE reduce_from(entries, i + 1, used_entries)

reduce_entries_for_suggest_dic(entries) == reduce_from(entries, 1, {})

----------------------------------------------------------------------------
(* The writers *)

\* os.linesep of the platform the program runs on.
LineSep(os) == IF os = "nt" THEN << CR, LF >> ELSE << LF >>

\* A text file opened with the default newline: each "\n" written becomes
\* os.linesep.
RECURSIVE TranslateNewlines(_, _)
TranslateNewlines(s, os) ==
    IF s = << >> THEN << >>
    ELSE (IF Head(s) = LF THEN LineSep(os) ELSE << Head(s) >>)
         \o TranslateNewlines(Tail(s), os)

\* A row that carries the surface in place of the normalized surface.
FormatRowSurface(entry) ==
    entry.yomi \o << TAB >> \o entry.surface \o << TAB >> \o entry.pos \o << LF >>

\* '{}\t{}\t{}\n'.format(entry.yomi, entry.normalized_surface, entry.pos)
FormatRow(entry) ==
    entry.yomi \o << TAB >> \o entry.normalized_surface \o << TAB >> \o entry.pos
    \o << LF >>

\* Everything the loop of a writer passes to f.write, in order.
RECURSIVE WrittenText(_)
WrittenText(rows) ==
    IF rows = << >> THEN << >>
    ELSE FormatRow(Head(rows)) \o WrittenText(Tail(rows))

\* The file a writer leaves: reduced, formatted, newline-translated.
WriterOutput(encoding, entries, os) ==
    [encoding |-> encoding,
     text |-> TranslateNewlines(WrittenText(reduce_entries_for_suggest_dic(entries)), os)]

\* os.path.join(out_dir, '<prefix>_dic_{}.txt'.format(dic_type.value))
FilePath(prefix, dic_type) == << prefix, DicType[dic_type] >>

GoogleFile(entries, os) == WriterOutput("utf-8", entries, os)

AtokFile(entries, os) == WriterOutput("utf-16", entries, os)

\* open(file_path, 'w') creates or truncates the file, then it is written.
WriteFile(fs, path, content) ==
    [p \in DOMAIN fs \cup {path} |-> IF p = path THEN content ELSE fs[p]]

----------------------------------------------------------------------------
(* create(): the resolution of the two selectors *)

\* set(X) of an Enum class iterates the class: all its members.
SetOfClass(enum) == [err |-> "none", val |-> Members(enum)]

\* set(x) of one Enum member: a member is not iterable.
SetOfMember(member) == [err |-> "TypeError", val |-> {}]

\* set(DicVersion) if arg_version == 'all' else set(DicVersion(arg_version))
TargetVersions(arg) ==
    IF arg = "all" THEN SetOfClass(DicVersion)
    ELSE LET m == ByValue(DicVersion, << arg >>)
         IN IF m.err # "none" THEN [err |-> m.err, val |-> {}]
            ELSE SetOfMember(m.val)

\* set(Series) if arg_series == 'all' else set(Series[arg_series])
TargetSeries(arg) ==
    IF arg = "all" THEN SetOfClass(Series)
    ELSE LET m == ByName(Series, arg)
         IN IF m.err # "none" THEN [err |-> m.err, val |-> {}]
            ELSE SetOfMember(m.val)

\* The choices argparse admits for --version and --series.
VersionChoices == {"all", "google", "atok"}

SeriesChoices == {"all", "aikatsu", "stars", "friends"}

----------------------------------------------------------------------------
(* Master files *)

Row(surface, normalized_surface, pos, yomi, series, kind) ==
    surface \o << TAB >> \o normalized_surface \o << TAB >> \o pos \o << TAB >>
    \o yomi \o << TAB >> \o series \o << TAB >> \o kind

\* The header is skipped unread: its content does not matter.
HeaderRow == << "header" >>

RowIchigo ==
    Row(<< "s1" >>, << "n1" >>, << "p1" >>, << "y1" >>, << "aikatsu" >>, << "character" >>)

\* The same (yomi, normalized surface) as RowIchigo, another surface and pos.
RowIchigoAlt ==
    Row(<< "s2" >>, << "n1" >>, << "p2" >>, << "y1" >>,
        << "aikatsu", COMMA, "stars" >>, << "character" >>)

RowSong ==
    Row(<< "s3" >>, << "n2" >>, << "p1" >>, << "y1" >>,
        << "friends", COMMA, "stars" >>, << "music" >>)

\* The key of RowIchigo again, in the other entry kind; a tag written twice.
RowSongAlt ==
    Row(<< "s4" >>, << "n1" >>, << "p1" >>, << "y1" >>,
        << "friends", COMMA, "friends" >>, << "music" >>)

\* An empty normalized surface, and a trailing tab after the sixth column.
RowTrailingTab ==
    Row(<< "s5" >>, << >>, << "p1", SP, "p2" >>, << "y2" >>, << "stars" >>, << "character" >>)
    \o << TAB >>

RowBlank == << SP >>

RowFive == << "s1", TAB, "n1", TAB, "p1", TAB, "y1", TAB, "aikatsu", SP >>

RowSeven == RowIchigo \o << TAB, "x" >>

RowBadSeries ==
    Row(<< "s1" >>, << "n1" >>, << "p1" >>, << "y1" >>,
        << "aikatsu", COMMA, "idol" >>, << "character" >>)

RowBadKind ==
    Row(<< "s1" >>, << "n1" >>, << "p1" >>, << "y1" >>, << "aikatsu" >>, << "idol" >>)

DataRows ==
    {RowIchigo, RowIchigoAlt, RowSong, RowSongAlt, RowTrailingTab, RowBlank,
     RowFive, RowSeven, RowBadSeries, RowBadKind}

SeqsUpTo(S, n) == UNION {[1..k -> S] : k \in 0..n}

\* A master file: empty, or a header line and up to MaxRows data lines.
MasterFiles == {<< >>} \cup {<< HeaderRow >> \o d : d \in SeqsUpTo(DataRows, MaxRows)}

----------------------------------------------------------------------------
(* The state *)

VARIABLES
    pc,               \* where the run is
    arg_version,      \* the --version argument
    arg_series,       \* the --series argument
    platform,         \* os.name of the machine
    master_file,      \* the lines of the master file
    dir_exists,       \* whether out_dir is a directory
    target_versions,  \* create's target_versions
    target_series,    \* create's target_series
    master_dic,       \* the MasterDic object, once constructed
    type_idx,         \* the position of the loop over DicType
    entries,          \* the entries extract returned last
    pending,          \* the versions the inner loop has yet to visit
    files,            \* the output files: path -> encoding and text
    calls,            \* the writer calls made so far
    error,            \* the uncaught exception, if any
    last              \* the last direct call of a function and its result

vars ==
    << pc, arg_version, arg_series, platform, master_file, dir_exists,
       target_versions, target_series, master_dic, type_idx, entries, pending,
       files, calls, error, last >>

NoFiles == [p \in {} |-> [encoding |-> "none", text |-> << >>]]

NoFailure == [at |-> "none", type |-> "none", cols |-> 0, input |-> << >>]

Failure(at, e) == [at |-> at, type |-> e.type, cols |-> e.cols, input |-> e.input]

NoCall == [op |-> "none", dic_type |-> "none", series_set |-> {}, arg |-> << >>, ret |-> << >>]

NotLoaded == [loaded |-> FALSE, entries |-> << >>]

----------------------------------------------------------------------------
(* A run of create(out_dir, arg_version, arg_series) *)

Init ==
    /\ pc = "make_dir"
    /\ arg_version \in VersionChoices
    /\ arg_series \in SeriesChoices
    /\ platform \in {"posix", "nt"}
    /\ master_file \in MasterFiles
    /\ dir_exists \in BOOLEAN
    /\ target_versions = {}
    /\ target_series = {}
    /\ master_dic = NotLoaded
    /\ type_idx = 1
    /\ entries = << >>
    /\ pending = {}
    /\ files = NoFiles
    /\ calls = << >>
    /\ error = NoFailure
    /\ last = NoCall

\* make_dir(out_dir)
MakeDir ==
    /\ pc = "make_dir"
    /\ dir_exists' = TRUE
    /\ pc' = "target_versions"
    /\ UNCHANGED << arg_version, arg_series, platform, master_file, target_versions,
                    target_series, master_dic, type_idx, entries, pending, files,
                    calls, error, last >>

\* target_versions = ...
ResolveVersions ==
    /\ pc = "target_versions"
    /\ LET r == TargetVersions(arg_version)
       IN IF r.err = "none"
          THEN /\ target_versions' = r.val
               /\ pc' = "target_series"
               /\ UNCHANGED error
          ELSE /\ pc' = "failed"
               /\ error' = [NoFailure EXCEPT !.at = "target_versions", !.type = r.err]
               /\ UNCHANGED target_versions
    /\ UNCHANGED << arg_version, arg_series, platform, master_file, dir_exists,
                    target_series, master_dic, type_idx, entries, pending, files,
                    calls, last >>

\* target_series = ...
ResolveSeries ==
    /\ pc = "target_series"
    /\ LET r == TargetSeries(arg_series)
       IN IF r.err = "none"
          THEN /\ target_series' = r.val
               /\ pc' = "master_dic"
               /\ UNCHANGED error
          ELSE /\ pc' = "failed"
               /\ error' = [NoFailure EXCEPT !.at = "target_series", !.type = r.err]
               /\ UNCHANGED target_series
    /\ UNCHANGED << arg_version, arg_series, platform, master_file, dir_exists,
                    target_versions, master_dic, type_idx, entries, pending, files,
                    calls, last >>

\* A constructor that swallows the exception and goes on with no entries.
NewMasterDicLenient(lines, next_pc) ==
    LET r == read_master_dic(lines)
    IN /\ pc' = next_pc
       /\ IF r.error.type = "none"
          THEN /\ master_dic' = [loaded |-> TRUE, entries |-> r.entries]
               /\ UNCHANGED error
          ELSE /\ error' = Failure("master_dic", r.error)
               /\ UNCHANGED master_dic

\* MasterDic(path): __init__ keeps what read_master_dic returns; an
\* exception leaves no object.
NewMasterDic(lines, next_pc) ==
    LET r == read_master_dic(lines)
    IN IF r.error.type = "none"
       THEN /\ master_dic' = [loaded |-> TRUE, entries |-> r.entries]
            /\ pc' = next_pc
            /\ UNCHANGED error
       ELSE /\ pc' = "failed"
            /\ error' = Failure("master_dic", r.error)
            /\ UNCHANGED master_dic

\* master_dic = MasterDic(MASTER_DIC_PATH)
LoadMaster ==
    /\ pc = "master_dic"
    /\ NewMasterDic(master_file, "extract")
    /\ UNCHANGED << arg_version, arg_series, platform, master_file, dir_exists,
                    target_versions, target_series, type_idx, entries, pending,
                    files, calls, last >>

\* entries = master_dic.extract(dic_type, target_series), once per dic_type;
\* the loop over DicType ends the run.
ExtractEntries ==
    /\ pc = "extract"
    /\ IF type_idx > Len(DicTypeOrder)
       THEN /\ pc' = "done"
            /\ UNCHANGED << entries, pending >>
       ELSE /\ entries' = extract(master_dic.entries, DicTypeOrder[type_idx], target_series)
            /\ pending' = target_versions
            /\ pc' = "write"
    /\ UNCHANGED << arg_version, arg_series, platform, master_file, dir_exists,
                    target_versions, target_series, master_dic, type_idx, files,
                    calls, error, last >>

\* open(file_path, 'w', ...) and the writes: the file, or the exception of
\* open when the directory is missing.
WriterCall(writer, prefix, content, given, dic_type, next_pc) ==
    IF dir_exists
    THEN /\ files' = WriteFile(files, FilePath(prefix, dic_type), content)
         /\ calls' = Append(calls, [writer |-> writer, dic_type |-> dic_type,
                                    entries |-> given])
         /\ pc' = next_pc
         /\ UNCHANGED error
    ELSE /\ pc' = "failed"
         /\ error' = [NoFailure EXCEPT !.at = writer, !.type = "FileNotFoundError"]
         /\ calls' = Append(calls, [writer |-> writer, dic_type |-> dic_type,
                                    entries |-> given])
         /\ UNCHANGED files

out_google_dic(given, dic_type, next_pc) ==
    WriterCall("out_google_dic", "google", GoogleFile(given, platform), given,
               dic_type, next_pc)

\* A writer that names its file as the other writer does.
out_atok_dic_google_path(given, dic_type, next_pc) ==
    WriterCall("out_atok_dic", "google", AtokFile(given, platform), given,
               dic_type, next_pc)

out_atok_dic(given, dic_type, next_pc) ==
    WriterCall("out_atok_dic", "atok", AtokFile(given, platform), given,
               dic_type, next_pc)

\* One turn of "for version in target_versions": a set has no fixed
\* iteration order, so any version not yet visited may come next.
WriteVersion(version) ==
    /\ pc = "write"
    /\ version \in pending
    /\ pending' = pending \ {version}
    /\ LET next_pc == IF pending' = {} THEN "extract" ELSE "write"
       IN IF version = "GOOGLE"
          THEN out_google_dic(entries, DicTypeOrder[type_idx], next_pc)
          ELSE out_atok_dic(entries, DicTypeOrder[type_idx], next_pc)
    /\ type_idx' = IF pending' = {} THEN type_idx + 1 ELSE type_idx
    /\ UNCHANGED << arg_version, arg_series, platform, master_file, dir_exists,
                    target_versions, target_series, master_dic, entries, last >>

Next ==
    \/ MakeDir
    \/ ResolveVersions
    \/ ResolveSeries
    \/ LoadMaster
    \/ ExtractEntries
    \/ \E version \in Members(DicVersion) : WriteVersion(version)

Spec == Init /\ [][Next]_vars

----------------------------------------------------------------------------
(* The functions called directly: a MasterDic is constructed, then extract *)
(* is called with any entry kind and any set of tags, and the reducer or   *)
(* a writer is called with the loaded or the extracted entries.            *)

InitApi ==
    /\ pc = "api_new"
    /\ arg_version = "all"
    /\ arg_series = "all"
    /\ platform \in {"posix", "nt"}
    /\ master_file \in MasterFiles
    /\ dir_exists \in BOOLEAN
    /\ target_versions = {}
    /\ target_series = {}
    /\ master_dic = NotLoaded
    /\ type_idx = 1
    /\ entries = << >>
    /\ pending = {}
    /\ files = NoFiles
    /\ calls = << >>
    /\ error = NoFailure
    /\ last = NoCall

\* MasterDic(dic_path)
ApiMasterDic ==
    /\ pc = "api_new"
    /\ NewMasterDic(master_file, "api_loaded")
    /\ entries' = IF pc' = "failed" THEN << >> ELSE master_dic'.entries
    /\ UNCHANGED << arg_version, arg_series, platform, master_file, dir_exists,
                    target_versions, target_series, type_idx, pending, files,
                    calls, last >>

\* master_dic.extract(dic_type, series_set)
ApiExtract(dic_type, series_set) ==
    /\ pc = "api_loaded"
    /\ entries' = extract(master_dic.entries, dic_type, series_set)
    /\ last' = [op |-> "extract", dic_type |-> dic_type, series_set |-> series_set,
                arg |-> master_dic.entries, ret |-> entries']
    /\ pc' = "api_extracted"
    /\ UNCHANGED << arg_version, arg_series, platform, master_file, dir_exists,
                    target_versions, target_series, master_dic, type_idx, pending,
                    files, calls, error >>

\* reduce_entries_for_suggest_dic(entries)
ApiReduce ==
    /\ pc \in {"api_loaded", "api_extracted"}
    /\ last' = [NoCall EXCEPT !.op = "reduce", !.arg = entries,
                              !.ret = reduce_entries_for_suggest_dic(entries)]
    /\ pc' = "api_end"
    /\ UNCHANGED << arg_version, arg_series, platform, master_file, dir_exists,
                    target_versions, target_series, master_dic, type_idx, entries,
                    pending, files, calls, error >>

\* out_google_dic(out_dir, entries, dic_type)
ApiOutGoogle(dic_type) ==
    /\ pc \in {"api_loaded", "api_extracted"}
    /\ out_google_dic(entries, dic_type, "api_end")
    /\ last' = [NoCall EXCEPT !.op = "out_google_dic", !.dic_type = dic_type,
                              !.arg = entries]
    /\ UNCHANGED << arg_version, arg_series, platform, master_file, dir_exists,
                    target_versions, target_series, master_dic, type_idx, entries,
                    pending >>

\* out_atok_dic(out_dir, entries, dic_type)
ApiOutAtok(dic_type) ==
    /\ pc \in {"api_loaded", "api_extracted"}
    /\ out_atok_dic(entries, dic_type, "api_end")
    /\ last' = [NoCall EXCEPT !.op = "out_atok_dic", !.dic_type = dic_type,
                              !.arg = entries]
    /\ UNCHANGED << arg_version, arg_series, platform, master_file, dir_exists,
                    target_versions, target_series, master_dic, type_idx, entries,
                    pending >>

NextApi ==
    \/ ApiMasterDic
    \/ \E dic_type \in Members(DicType), series_set \in SUBSET Members(Series) :
           ApiExtract(dic_type, series_set)
    \/ ApiReduce
    \/ \E dic_type \in Members(DicType) : ApiOutGoogle(dic_type)
    \/ \E dic_type \in Members(DicType) : ApiOutAtok(dic_type)

SpecApi == InitApi /\ [][NextApi]_vars

----------------------------------------------------------------------------
(* Vocabulary of the properties *)

\* The elements of seq at the indices in S, in increasing order of index.
Restrict(seq, S) ==
    [k \in 1..Cardinality(S) |->
        seq[CHOOSE i \in S : Cardinality({j \in S : j < i}) = k - 1]]

\* The data rows of a master file are the lines after the header.
DataIdx(file) == 2..Len(file)

\* The fields of a row as written in the file, nothing stripped.
RawFields(row) == split(row, TAB)

\* The fields the loader looks at: those of the right-stripped line.
StrippedFields(row) == split(rstrip(FileLine(row)), TAB)

BlankRow(row) == rstrip(FileLine(row)) = << >>

TagsOk(field) == \A p \in 1..Len(split(field, COMMA)) :
                    Len(split(field, COMMA)[p]) = 1
                    /\ \E m \in DOMAIN Series : Series[m] = split(field, COMMA)[p][1]

TagsOf(field) == {CHOOSE m \in DOMAIN Series : Series[m] = split(field, COMMA)[p][1] :
                    p \in 1..Len(split(field, COMMA))}

KindOk(field) == Len(field) = 1 /\ \E m \in DOMAIN DicType : DicType[m] = field[1]

KindOf(field) == CHOOSE m \in DOMAIN DicType : DicType[m] = field[1]

\* A valid 6-column row: six fields as written, known tags, a known kind.
ValidRow(row) ==
    /\ Len(RawFields(row)) = 6
    /\ TagsOk(RawFields(row)[5])
    /\ KindOk(RawFields(row)[6])

\* The record a valid row describes, field by field.
SourceRecord(row) ==
    [surface |-> RawFields(row)[1], normalized_surface |-> RawFields(row)[2],
     pos |-> RawFields(row)[3], yomi |-> RawFields(row)[4],
     series_set |-> TagsOf(RawFields(row)[5]), dic_type |-> KindOf(RawFields(row)[6])]

\* A well-formed master table: a header, then blank or valid rows only.
WellFormed(file) ==
    /\ file # << >>
    /\ \A i \in DataIdx(file) : BlankRow(file[i]) \/ ValidRow(file[i])

\* A non-blank row with a number of fields other than 6.
WrongColumns(row) == ~BlankRow(row) /\ Len(StrippedFields(row)) # 6

\* A non-blank row the loader cannot turn into a record.
Rejected(row) ==
    /\ ~BlankRow(row)
    /\ \/ Len(StrippedFields(row)) # 6
       \/ ~TagsOk(StrippedFields(row)[5])
       \/ ~KindOk(StrippedFields(row)[6])

FirstRejected(file) ==
    CHOOSE i \in DataIdx(file) :
        Rejected(file[i]) /\ \A j \in DataIdx(file) : j < i => ~Rejected(file[j])

PairKey(r) == << r.yomi, r.normalized_surface >>

Triple(r) == << r.yomi, r.normalized_surface, r.pos >>

Triples(rows) == [k \in 1..Len(rows) |-> Triple(rows[k])]

\* The indices of seq holding x.
Occurrences(seq, x) == {i \in 1..Len(seq) : seq[i] = x}

----------------------------------------------------------------------------
(* C1: extract *)

\* C1: extract returns exactly the loaded records whose entry kind is the
\* requested one and whose tags meet the requested tags, in the order of
\* the master table; no returned record is of another kind.
C1_ExtractIsStableFilter ==
    last.op = "extract" =>
        LET wanted == {i \in 1..Len(last.arg) :
                          /\ last.arg[i].dic_type = last.dic_type
                          /\ last.arg[i].series_set \cap last.series_set # {}}
        IN /\ last.arg = master_dic.entries
           /\ last.ret = Restrict(last.arg, wanted)
           /\ \A k \in 1..Len(last.ret) : last.ret[k].dic_type = last.dic_type

\* Three records loaded, two returned, one of the requested kind left out
\* for its tags alone.
C1_Witness ==
    /\ last.op = "extract"
    /\ Len(last.arg) = 3
    /\ Len(last.ret) = 2
    /\ last.ret[1] # last.ret[2]
    /\ \E i \in 1..3 : /\ last.arg[i].dic_type = last.dic_type
                       /\ last.arg[i].series_set \cap last.series_set = {}

----------------------------------------------------------------------------
(* C2: the reducer *)

\* C2: the reducer returns a subsequence of its input, no longer than it,
\* in which each (pronunciation, normalized surface) key of the input is
\* held by exactly one record: the first record of the input with that key.
C2_ReduceKeepsFirstOfEachKey ==
    last.op = "reduce" =>
        LET in == last.arg
            out == last.ret
            firsts == {i \in 1..Len(in) :
                          \A j \in 1..(i - 1) : PairKey(in[j]) # PairKey(in[i])}
        IN /\ Len(out) <= Len(in)
           /\ out = Restrict(in, firsts)
           /\ \A i \in 1..Len(in) :
                 LET same == {k \in 1..Len(out) : PairKey(out[k]) = PairKey(in[i])}
                     first == CHOOSE j \in 1..Len(in) :
                                 /\ PairKey(in[j]) = PairKey(in[i])
                                 /\ \A h \in 1..(j - 1) : PairKey(in[h]) # PairKey(in[i])
                 IN /\ Cardinality(same) = 1
                    /\ \A k \in same : out[k] = in[first]

\* A key held by the first and the third record, which differ, with a
\* record of another key between them: the third is dropped.
C2_Witness ==
    /\ last.op = "reduce"
    /\ Len(last.arg) = 3
    /\ PairKey(last.arg[1]) = PairKey(last.arg[3])
    /\ last.arg[1] # last.arg[3]
    /\ PairKey(last.arg[2]) # PairKey(last.arg[1])
    /\ last.ret = << last.arg[1], last.arg[2] >>

----------------------------------------------------------------------------
(* C3: a row with a wrong number of columns *)

\* Whether MasterDic(path) has been attempted.
LoadAttempted == pc \notin {"api_new", "make_dir", "target_versions", "target_series", "master_dic"}

\* C3 as stated: a non-blank data row with a number of fields other than 6
\* makes the load fail with a FormatError that carries the field count and
\* the raw line of such a row, and no record is returned.
C3_AsStated ==
    (LoadAttempted /\ \E i \in DataIdx(master_file) : WrongColumns(master_file[i])) =>
        /\ pc = "failed"
        /\ master_dic = NotLoaded
        /\ error.type = "FormatError"
        /\ \E i \in DataIdx(master_file) :
              /\ WrongColumns(master_file[i])
              /\ error.cols = Len(StrippedFields(master_file[i]))
              /\ error.input = FileLine(master_file[i])

\* C3, amended: such a row makes the load fail with a ValueError and no
\* record is returned, whatever rows precede it; when it is the first row
\* the loader rejects, the error carries its field count and the line with
\* its trailing whitespace stripped.
C3_WrongColumnsAbortLoad ==
    (LoadAttempted /\ \E i \in DataIdx(master_file) : WrongColumns(master_file[i])) =>
        /\ pc = "failed"
        /\ master_dic = NotLoaded
        /\ error.at = "master_dic"
        /\ error.type = "ValueError"
        /\ LET row == master_file[FirstRejected(master_file)]
           IN WrongColumns(row) =>
                 /\ error.cols = Len(StrippedFields(row))
                 /\ error.input = rstrip(FileLine(row))

\* Two valid rows, then a row of five columns with trailing whitespace.
C3_Witness ==
    /\ pc = "failed"
    /\ Len(master_file) = 4
    /\ ValidRow(master_file[2])
    /\ ValidRow(master_file[3])
    /\ WrongColumns(master_file[4])
    /\ error.cols = 5
    /\ error.input # FileLine(master_file[4])
    /\ master_dic = NotLoaded

----------------------------------------------------------------------------
(* C8: load, then extract *)

\* C8: after a load, extract with the entry kind of a valid 6-column row
\* and a tag set holding one of its tags returns a record whose six fields
\* are those of the row.
C8_LoadExtractKeepsFields ==
    last.op = "extract" =>
        \A i \in DataIdx(master_file) :
            ValidRow(master_file[i]) =>
                LET source == SourceRecord(master_file[i])
                IN (/\ source.dic_type = last.dic_type
                    /\ source.series_set \cap last.series_set # {})
                   => Occurrences(last.ret, source) # {}

\* Three valid rows with different fields, one of them asked for by a
\* single tag it shares with the request and found in the result.
C8_Witness ==
    /\ last.op = "extract"
    /\ Len(master_file) = 4
    /\ \A i \in DataIdx(master_file) : ValidRow(master_file[i])
    /\ Cardinality(last.series_set) = 1
    /\ \E i \in DataIdx(master_file) :
          LET source == SourceRecord(master_file[i])
          IN /\ Cardinality(source.series_set) = 2
             /\ source.dic_type = last.dic_type
             /\ source.series_set \cap last.series_set # {}
             /\ source.surface # source.normalized_surface
             /\ Occurrences(last.ret, source) # {}
    /\ Len(last.ret) < 3

----------------------------------------------------------------------------
(* C4, C5: one named product line, one named output target *)

Ended == pc \in {"done", "failed"}

\* The calls of a writer for an entry kind.
CallsOf(writer, dic_type) ==
    {k \in 1..Len(calls) : calls[k].writer = writer /\ calls[k].dic_type = dic_type}

\* C4: with one named product line the selection is the set of that one
\* member, the run completes, and each writer is given exactly the records
\* of the kind that carry that member.
C4_OneSeriesSelectsThatMember ==
    (/\ arg_series # "all"
     /\ arg_version = "all"
     /\ WellFormed(master_file)
     /\ Ended) =>
        LET member == CHOOSE m \in DOMAIN Series : Series[m] = arg_series
        IN /\ pc = "done"
           /\ target_series = {member}
           /\ \A k \in 1..Len(calls) :
                 calls[k].entries =
                     Restrict(master_dic.entries,
                              {i \in 1..Len(master_dic.entries) :
                                  /\ master_dic.entries[i].dic_type = calls[k].dic_type
                                  /\ member \in master_dic.entries[i].series_set})

\* C5: with one named output target, for each entry kind that target's
\* writer is called once and the other writer never.
C5_OneVersionCallsThatWriter ==
    (/\ arg_version # "all"
     /\ arg_series = "all"
     /\ WellFormed(master_file)
     /\ Ended) =>
        LET mine == IF arg_version = "google" THEN "out_google_dic" ELSE "out_atok_dic"
            other == IF arg_version = "google" THEN "out_atok_dic" ELSE "out_google_dic"
            prefix == IF arg_version = "google" THEN "google" ELSE "atok"
        IN /\ pc = "done"
           /\ \A t \in Members(DicType) :
                 /\ Cardinality(CallsOf(mine, t)) = 1
                 /\ CallsOf(other, t) = {}
           /\ DOMAIN files = {FilePath(prefix, t) : t \in Members(DicType)}

----------------------------------------------------------------------------
(* C6: every target, every product line *)

AllPaths == {FilePath(prefix, t) : prefix \in {"google", "atok"}, t \in Members(DicType)}

\* The number of line feeds of a text.
Rows(text) == Cardinality({i \in 1..Len(text) : text[i] = LF})

\* Whether the master table has a record of an entry kind.
HasKind(file, dic_type) ==
    \E i \in DataIdx(file) :
        ValidRow(file[i]) /\ SourceRecord(file[i]).dic_type = dic_type

\* C6: with "all" and "all" on a well-formed master table the run does not
\* fail, and it ends with the four files written, each with at least one
\* row when the table has a record of its entry kind.
C6_AllAllWritesFourFiles ==
    (/\ arg_version = "all"
     /\ arg_series = "all"
     /\ WellFormed(master_file)) =>
        /\ pc # "failed"
        /\ pc = "done" =>
              /\ DOMAIN files = AllPaths
              /\ Len(calls) = 4
              /\ \A prefix \in {"google", "atok"}, t \in Members(DicType) :
                    HasKind(master_file, t) => Rows(files[FilePath(prefix, t)].text) >= 1

\* A finished run over a table with records of both kinds: four files,
\* each with a row, the two targets in their own encodings.
C6_Witness ==
    /\ arg_version = "all"
    /\ arg_series = "all"
    /\ WellFormed(master_file)
    /\ pc = "done"
    /\ HasKind(master_file, "CHARACTER")
    /\ HasKind(master_file, "MUSIC")
    /\ DOMAIN files = AllPaths
    /\ \A p \in AllPaths : Rows(files[p].text) >= 1
    /\ files[FilePath("google", "MUSIC")].encoding = "utf-8"
    /\ files[FilePath("atok", "MUSIC")].encoding = "utf-16"

----------------------------------------------------------------------------
(* C7, C9: the written file *)

\* The file a direct call of a writer wrote.
WrittenFile ==
    files[FilePath(IF last.op = "out_google_dic" THEN "google" ELSE "atok", last.dic_type)]

WriterReturned == last.op \in {"out_google_dic", "out_atok_dic"} /\ pc = "api_end"

\* One line per record, each ended by carriage return and line feed.
RECURSIVE CrLfLines(_)
CrLfLines(rows) ==
    IF rows = << >> THEN << >>
    ELSE Head(rows).yomi \o << TAB >> \o Head(rows).normalized_surface \o << TAB >>
         \o Head(rows).pos \o << CR, LF >> \o CrLfLines(Tail(rows))

\* C7: the file a writer leaves is one line per record of the reduced
\* sequence, no two lines with the same (pronunciation, normalized surface),
\* each line pronunciation, tab, normalized surface, tab, part of speech,
\* ended by carriage return and line feed.
C7_LinesEndWithCrLf ==
    WriterReturned =>
        LET reduced == reduce_entries_for_suggest_dic(last.arg)
        IN /\ \A i, j \in 1..Len(reduced) :
                 PairKey(reduced[i]) = PairKey(reduced[j]) => i = j
           /\ WrittenFile.text = CrLfLines(reduced)

\* Reading a text back: "\r\n" and "\n" both end a line, and the fields of
\* a line are what the tabs separate.
RECURSIVE ParseRows(_, _)
ParseRows(text, cur) ==
    IF text = << >> THEN << >>
    ELSE IF Head(text) = LF
    THEN LET line == IF cur # << >> /\ cur[Len(cur)] = CR
                     THEN SubSeq(cur, 1, Len(cur) - 1) ELSE cur
         IN << split(line, TAB) >> \o ParseRows(Tail(text), << >>)
    ELSE ParseRows(Tail(text), Append(cur, Head(text)))

\* C9: the rows out_google_dic wrote, read back as (pronunciation,
\* normalized surface, part of speech), are the triples of the reduced
\* sequence, in order.
C9_GoogleRoundTrip ==
    (WriterReturned /\ last.op = "out_google_dic") =>
        ParseRows(WrittenFile.text, << >>)
            = Triples(reduce_entries_for_suggest_dic(last.arg))

\* A record with an empty normalized surface and a space in its part of
\* speech, and a key held twice, written on either platform.
C9_Witness ==
    /\ WriterReturned
    /\ last.op = "out_google_dic"
    /\ Len(last.arg) = 3
    /\ Len(ParseRows(WrittenFile.text, << >>)) = 2
    /\ \E k \in 1..3 : last.arg[k].normalized_surface = << >> /\ Len(last.arg[k].pos) = 3
    /\ \E k \in 1..3 : last.arg[k].surface # last.arg[k].normalized_surface

----------------------------------------------------------------------------
(* C10: the load comes before any writer *)

\* C10: a writer is only ever called, and a file only ever written, after
\* the whole master table was loaded; a run whose load failed has opened,
\* created and modified no output file.
C10_LoadBeforeWriters ==
    /\ (calls # << >> \/ files # NoFiles) => master_dic.loaded
    /\ (pc = "failed" /\ error.at = "master_dic") =>
          /\ calls = << >>
          /\ files = NoFiles
          /\ ~master_dic.loaded

\* A run with every target and product line whose load failed at the third
\* data row, after two rows that were valid.
C10_Witness ==
    /\ pc = "failed"
    /\ error.at = "master_dic"
    /\ arg_version = "all"
    /\ arg_series = "all"
    /\ Len(master_file) = 4
    /\ ValidRow(master_file[2])
    /\ ValidRow(master_file[3])
    /\ Rejected(master_file[4])
    /\ files = NoFiles

====
